---- MODULE Spec2Model ----
(***************************************************************************)
(* Model of examples/pod_namespace_watch.py: main() consumes two watch     *)
(* streams in sequence (namespaces, then pods of all namespaces), prints   *)
(* every event and shares one countdown `count` between the two loops.     *)
(*                                                                         *)
(* The loops of main() are modelled from the source.  watch.Watch (its     *)
(* stream() generator and stop()) is imported from the client library and  *)
(* is modelled from the specification's contract of the watch capability:  *)
(* per-session state machine OPEN -> CLOSING -> CLOSED, cooperative        *)
(* cancellation (already-buffered events may still be delivered after      *)
(* stop()), server-side timeout, transport errors, silent network outage.  *)
(*                                                                         *)
(* A printed event line is abstracted to the stream it belongs to; the     *)
(* event's type is an input of the delivery step and no claim depends on   *)
(* the object's name or kind.                                              *)
(***************************************************************************)
EXTENDS Integers, Sequences, FiniteSets, TLC

\* count = 10 (line 73)
InitialBudget == 10

\* Bound: events a session's server delivers while the session is OPEN.
MaxEvents == 11

\* Bound: already-buffered events a session delivers after stop().
MaxBuffered == 1

\* Session 1 watches v1.list_namespace, session 2 v1.list_pod_for_all_namespaces.
NS == 1
POD == 2
Sessions == {NS, POD}

\* The watch capability's event types.
EventTypes == {"ADDED", "MODIFIED", "DELETED", "ERROR"}

\* Value of `event` before the first iteration binds it.
NoEvent == "unbound"

VARIABLES
    phase,          \* which of the two for-loops main() is in (NS or POD)
    pc,             \* position in that loop: open, next, body, finish; done, error
    count,          \* the shared countdown (line 73)
    wStop,          \* the Watch object's cancellation flag, set by w.stop()
    session,        \* per session: NEW, OPEN, CLOSING, CLOSED
    endedBy,        \* per session: none, timeout, cancel, error
    outage,         \* a silent network outage is in effect
    event,          \* type of the event bound by the for statement
    delivered,      \* per session: events yielded by the stream
    buffered,       \* per session: events yielded after stop()
    seen,           \* per session: events whose loop body has completed
    stopAt,         \* per session: indices of the events whose body called w.stop()
    out,            \* standard output, one element per printed line
    budgetAtOpen,   \* per session: count when the session was opened
    budgetAtClose   \* per session: count when the session ended

vars == <<phase, pc, count, wStop, session, endedBy, outage, event, delivered,
          buffered, seen, stopAt, out, budgetAtOpen, budgetAtClose>>

\* print("Event: %s %s" % ...) (line 76) and print("Event: %s %s %s" % ...) (83-87)
EventLine(s) == IF s = NS THEN "Event: namespace" ELSE "Event: pod"

\* print("Finished namespace stream.") (line 80), print("Finished pod stream.") (91)
FinishedLine(s) == IF s = NS THEN "Finished namespace stream." ELSE "Finished pod stream."

\* State after lines 70-74: configuration loaded, count = 10, w = watch.Watch().
Init ==
    /\ phase = NS
    /\ pc = "open"
    /\ count = InitialBudget
    /\ wStop = FALSE
    /\ session = [s \in Sessions |-> "NEW"]
    /\ endedBy = [s \in Sessions |-> "none"]
    /\ outage = FALSE
    /\ event = NoEvent
    /\ delivered = [s \in Sessions |-> 0]
    /\ buffered = [s \in Sessions |-> 0]
    /\ seen = [s \in Sessions |-> 0]
    /\ stopAt = [s \in Sessions |-> {}]
    /\ out = <<>>
    /\ budgetAtOpen = [s \in Sessions |-> 0]
    /\ budgetAtClose = [s \in Sessions |-> 0]

\* w.stream(list_operation, timeout_seconds=10): a new session, a fresh state
\* machine instance in OPEN with no cancellation pending.
StreamOpen(s) ==
    /\ phase = s
    /\ pc = "open"
    /\ session' = [session EXCEPT ![s] = "OPEN"]
    /\ wStop' = FALSE
    /\ budgetAtOpen' = [budgetAtOpen EXCEPT ![s] = count]
    /\ pc' = "next"
    /\ UNCHANGED <<phase, count, endedBy, outage, event, delivered, buffered,
                   seen, stopAt, out, budgetAtClose>>

\* The stream yields an event of type t to the for statement: while OPEN, or,
\* after a cancellation request, an event that was already buffered.
StreamYield(s, t) ==
    /\ phase = s
    /\ pc = "next"
    /\ ~outage
    /\ \/ session[s] = "OPEN" /\ delivered[s] - buffered[s] < MaxEvents
       \/ session[s] = "CLOSING" /\ buffered[s] < MaxBuffered
    /\ event' = t
    /\ delivered' = [delivered EXCEPT ![s] = @ + 1]
    /\ buffered' = [buffered EXCEPT ![s] = IF session[s] = "CLOSING" THEN @ + 1 ELSE @]
    /\ pc' = "body"
    /\ UNCHANGED <<phase, count, wStop, session, endedBy, outage, seen, stopAt,
                   out, budgetAtOpen, budgetAtClose>>

\* w.stop(): request cancellation of the session in progress.
WatchStop(s) ==
    /\ wStop' = TRUE
    /\ session' = [session EXCEPT ![s] = IF @ = "OPEN" THEN "CLOSING" ELSE @]

\* LoopBody with an ERROR event left out of the countdown.
LoopBody_skipsErrorEvents(s) ==
    /\ phase = s
    /\ pc = "body"
    /\ out' = Append(out, EventLine(s))
    /\ count' = IF event = "ERROR" THEN count ELSE count - 1
    /\ seen' = [seen EXCEPT ![s] = @ + 1]
    /\ IF count' = 0
       THEN /\ WatchStop(s)
            /\ stopAt' = [stopAt EXCEPT ![s] = @ \cup {seen'[s]}]
       ELSE UNCHANGED <<wStop, session, stopAt>>
    /\ pc' = "next"
    /\ UNCHANGED <<phase, endedBy, outage, event, delivered, buffered,
                   budgetAtOpen, budgetAtClose>>

\* LoopBody with the test `if count <= 0` in place of `if not count`.
LoopBody_stopsAtOrBelowZero(s) ==
    /\ phase = s
    /\ pc = "body"
    /\ out' = Append(out, EventLine(s))
    /\ count' = count - 1
    /\ seen' = [seen EXCEPT ![s] = @ + 1]
    /\ IF count' <= 0
       THEN /\ WatchStop(s)
            /\ stopAt' = [stopAt EXCEPT ![s] = @ \cup {seen'[s]}]
       ELSE UNCHANGED <<wStop, session, stopAt>>
    /\ pc' = "next"
    /\ UNCHANGED <<phase, endedBy, outage, event, delivered, buffered,
                   budgetAtOpen, budgetAtClose>>

\* LoopBody with `break` in place of w.stop(): the loop is left while the
\* session is still open.
LoopBody_breaksWithoutStop(s) ==
    /\ phase = s
    /\ pc = "body"
    /\ out' = Append(out, EventLine(s))
    /\ count' = count - 1
    /\ seen' = [seen EXCEPT ![s] = @ + 1]
    /\ pc' = IF count' = 0 THEN "finish" ELSE "next"
    /\ UNCHANGED <<phase, wStop, session, stopAt, endedBy, outage, event,
                   delivered, buffered, budgetAtOpen, budgetAtClose>>

\* LoopBody with the completion marker printed inside the `if not count:` block.
LoopBody_printsFinishedOnStop(s) ==
    /\ phase = s
    /\ pc = "body"
    /\ count' = count - 1
    /\ seen' = [seen EXCEPT ![s] = @ + 1]
    /\ IF count' = 0
       THEN /\ WatchStop(s)
            /\ stopAt' = [stopAt EXCEPT ![s] = @ \cup {seen'[s]}]
            /\ out' = Append(Append(out, EventLine(s)), FinishedLine(s))
       ELSE /\ UNCHANGED <<wStop, session, stopAt>>
            /\ out' = Append(out, EventLine(s))
    /\ pc' = "next"
    /\ UNCHANGED <<phase, endedBy, outage, event, delivered, buffered,
                   budgetAtOpen, budgetAtClose>>

\* LoopBody with the test `if not count` made before `count -= 1`.
LoopBody_testsBeforeDecrement(s) ==
    /\ phase = s
    /\ pc = "body"
    /\ out' = Append(out, EventLine(s))
    /\ count' = count - 1
    /\ seen' = [seen EXCEPT ![s] = @ + 1]
    /\ IF count = 0
       THEN /\ WatchStop(s)
            /\ stopAt' = [stopAt EXCEPT ![s] = @ \cup {seen'[s]}]
       ELSE UNCHANGED <<wStop, session, stopAt>>
    /\ pc' = "next"
    /\ UNCHANGED <<phase, endedBy, outage, event, delivered, buffered,
                   budgetAtOpen, budgetAtClose>>

\* LoopBody with the test `if count` in place of `if not count`.
LoopBody_stopsWhenNonZero(s) ==
    /\ phase = s
    /\ pc = "body"
    /\ out' = Append(out, EventLine(s))
    /\ count' = count - 1
    /\ seen' = [seen EXCEPT ![s] = @ + 1]
    /\ IF count' # 0
       THEN /\ WatchStop(s)
            /\ stopAt' = [stopAt EXCEPT ![s] = @ \cup {seen'[s]}]
       ELSE UNCHANGED <<wStop, session, stopAt>>
    /\ pc' = "next"
    /\ UNCHANGED <<phase, endedBy, outage, event, delivered, buffered,
                   budgetAtOpen, budgetAtClose>>

\* The loop body: print the event, count -= 1, if not count: w.stop()
\* (lines 76-79 and 83-90).
LoopBody(s) ==
    /\ phase = s
    /\ pc = "body"
    /\ out' = Append(out, EventLine(s))
    /\ count' = count - 1
    /\ seen' = [seen EXCEPT ![s] = @ + 1]
    /\ IF count' = 0
       THEN /\ WatchStop(s)
            /\ stopAt' = [stopAt EXCEPT ![s] = @ \cup {seen'[s]}]
       ELSE UNCHANGED <<wStop, session, stopAt>>
    /\ pc' = "next"
    /\ UNCHANGED <<phase, endedBy, outage, event, delivered, buffered,
                   budgetAtOpen, budgetAtClose>>

\* The server-side timeout (timeout_seconds=10) elapses: the stream ends normally.
ServerTimeout(s) ==
    /\ phase = s
    /\ pc = "next"
    /\ ~outage
    /\ session[s] = "OPEN"
    /\ session' = [session EXCEPT ![s] = "CLOSED"]
    /\ endedBy' = [endedBy EXCEPT ![s] = "timeout"]
    /\ budgetAtClose' = [budgetAtClose EXCEPT ![s] = count]
    /\ pc' = "finish"
    /\ UNCHANGED <<phase, count, wStop, outage, event, delivered, buffered, seen,
                   stopAt, out, budgetAtOpen>>

\* The stream observes the cancellation request and ends: CLOSING -> CLOSED.
StreamCancelled(s) ==
    /\ phase = s
    /\ pc = "next"
    /\ ~outage
    /\ session[s] = "CLOSING"
    /\ session' = [session EXCEPT ![s] = "CLOSED"]
    /\ endedBy' = [endedBy EXCEPT ![s] = "cancel"]
    /\ budgetAtClose' = [budgetAtClose EXCEPT ![s] = count]
    /\ pc' = "finish"
    /\ UNCHANGED <<phase, count, wStop, outage, event, delivered, buffered, seen,
                   stopAt, out, budgetAtOpen>>

\* TransportError with the exception caught around the loop: the run goes on
\* to the statement after the loop.
TransportError_caught(s) ==
    /\ phase = s
    /\ pc = "next"
    /\ ~outage
    /\ session[s] \in {"OPEN", "CLOSING"}
    /\ session' = [session EXCEPT ![s] = "CLOSED"]
    /\ endedBy' = [endedBy EXCEPT ![s] = "error"]
    /\ budgetAtClose' = [budgetAtClose EXCEPT ![s] = count]
    /\ pc' = "finish"
    /\ UNCHANGED <<phase, count, wStop, outage, event, delivered, buffered, seen,
                   stopAt, out, budgetAtOpen>>

\* TransportError with the exception caught and the same stream opened again.
TransportError_retries(s) ==
    /\ phase = s
    /\ pc = "next"
    /\ ~outage
    /\ session[s] \in {"OPEN", "CLOSING"}
    /\ session' = [session EXCEPT ![s] = "CLOSED"]
    /\ endedBy' = [endedBy EXCEPT ![s] = "error"]
    /\ budgetAtClose' = [budgetAtClose EXCEPT ![s] = count]
    /\ pc' = "open"
    /\ UNCHANGED <<phase, count, wStop, outage, event, delivered, buffered, seen,
                   stopAt, out, budgetAtOpen>>

\* TransportError with _request_timeout passed to w.stream: a read-timeout is
\* raised during a silent outage too.
TransportError_readTimeout(s) ==
    /\ phase = s
    /\ pc = "next"
    /\ session[s] \in {"OPEN", "CLOSING"}
    /\ session' = [session EXCEPT ![s] = "CLOSED"]
    /\ endedBy' = [endedBy EXCEPT ![s] = "error"]
    /\ budgetAtClose' = [budgetAtClose EXCEPT ![s] = count]
    /\ pc' = "error"
    /\ UNCHANGED <<phase, count, wStop, outage, event, delivered, buffered, seen,
                   stopAt, out, budgetAtOpen>>

\* The watch capability raises a connection failure or read-timeout; main() has
\* no try/except, so the exception leaves main().
TransportError(s) ==
    /\ phase = s
    /\ pc = "next"
    /\ ~outage
    /\ session[s] \in {"OPEN", "CLOSING"}
    /\ session' = [session EXCEPT ![s] = "CLOSED"]
    /\ endedBy' = [endedBy EXCEPT ![s] = "error"]
    /\ budgetAtClose' = [budgetAtClose EXCEPT ![s] = count]
    /\ pc' = "error"
    /\ UNCHANGED <<phase, count, wStop, outage, event, delivered, buffered, seen,
                   stopAt, out, budgetAtOpen>>

\* The network goes silent (no event, no close, no error): with no
\* _request_timeout set, the client waits in the stream (docstring, line 47).
NetworkOutage(s) ==
    /\ phase = s
    /\ pc = "next"
    /\ ~outage
    /\ session[s] = "OPEN"
    /\ outage' = TRUE
    /\ UNCHANGED <<phase, pc, count, wStop, session, endedBy, event, delivered,
                   buffered, seen, stopAt, out, budgetAtOpen, budgetAtClose>>

\* PrintFinished with `count = 10` set again before the pod loop.
PrintFinished_resetsCount(s) ==
    /\ phase = s
    /\ pc = "finish"
    /\ out' = Append(out, FinishedLine(s))
    /\ count' = IF s = NS THEN InitialBudget ELSE count
    /\ IF s = NS
       THEN phase' = POD /\ pc' = "open"
       ELSE phase' = phase /\ pc' = "done"
    /\ UNCHANGED <<wStop, session, endedBy, outage, event, delivered,
                   buffered, seen, stopAt, budgetAtOpen, budgetAtClose>>

\* PrintFinished with the marker printed only when the countdown is exhausted.
PrintFinished_onlyWhenExhausted(s) ==
    /\ phase = s
    /\ pc = "finish"
    /\ out' = IF count = 0 THEN Append(out, FinishedLine(s)) ELSE out
    /\ IF s = NS
       THEN phase' = POD /\ pc' = "open"
       ELSE phase' = phase /\ pc' = "done"
    /\ UNCHANGED <<count, wStop, session, endedBy, outage, event, delivered,
                   buffered, seen, stopAt, budgetAtOpen, budgetAtClose>>

\* PrintFinished with main() returning after the namespace marker when the
\* countdown is exhausted, without the pod loop.
PrintFinished_returnsWhenExhausted(s) ==
    /\ phase = s
    /\ pc = "finish"
    /\ out' = Append(out, FinishedLine(s))
    /\ IF s = NS /\ count > 0
       THEN phase' = POD /\ pc' = "open"
       ELSE phase' = phase /\ pc' = "done"
    /\ UNCHANGED <<count, wStop, session, endedBy, outage, event, delivered,
                   buffered, seen, stopAt, budgetAtOpen, budgetAtClose>>

\* The statement after the loop: print the completion marker (lines 80, 91),
\* then go on to the pod loop (line 82) or return from main().
PrintFinished(s) ==
    /\ phase = s
    /\ pc = "finish"
    /\ out' = Append(out, FinishedLine(s))
    /\ IF s = NS
       THEN phase' = POD /\ pc' = "open"
       ELSE phase' = phase /\ pc' = "done"
    /\ UNCHANGED <<count, wStop, session, endedBy, outage, event, delivered,
                   buffered, seen, stopAt, budgetAtOpen, budgetAtClose>>

\* First loop: for event in w.stream(v1.list_namespace, timeout_seconds=10)
NsOpen == StreamOpen(NS)
NsYield == \E t \in EventTypes : StreamYield(NS, t)
NsBody == LoopBody(NS)
NsTimeout == ServerTimeout(NS)
NsCancelled == StreamCancelled(NS)
NsError == TransportError(NS)
NsOutage == NetworkOutage(NS)
NsFinished == PrintFinished(NS)

\* Second loop: for event in w.stream(v1.list_pod_for_all_namespaces, timeout_seconds=10)
PodOpen == StreamOpen(POD)
PodYield == \E t \in EventTypes : StreamYield(POD, t)
PodBody == LoopBody(POD)
PodTimeout == ServerTimeout(POD)
PodCancelled == StreamCancelled(POD)
PodError == TransportError(POD)
PodOutage == NetworkOutage(POD)
PodFinished == PrintFinished(POD)

Next ==
    \/ NsOpen
    \/ NsYield
    \/ NsBody
    \/ NsTimeout
    \/ NsCancelled
    \/ NsError
    \/ NsOutage
    \/ NsFinished
    \/ PodOpen
    \/ PodYield
    \/ PodBody
    \/ PodTimeout
    \/ PodCancelled
    \/ PodError
    \/ PodOutage
    \/ PodFinished

Spec == Init /\ [][Next]_vars

\* The steps of a run in which no transport error is raised and the network
\* does not go silent.
NextNoFault ==
    \/ NsOpen
    \/ NsYield
    \/ NsBody
    \/ NsTimeout
    \/ NsCancelled
    \/ NsFinished
    \/ PodOpen
    \/ PodYield
    \/ PodBody
    \/ PodTimeout
    \/ PodCancelled
    \/ PodFinished

\* main() is sequential code that keeps running (weak fairness of its own
\* steps); an open session's server-side timeout eventually elapses and a
\* session whose cancellation was requested eventually closes, however many
\* events are delivered in between (strong fairness).
LiveSpec ==
    /\ Init
    /\ [][NextNoFault]_vars
    /\ WF_vars(NsOpen) /\ WF_vars(NsBody) /\ WF_vars(NsFinished)
    /\ WF_vars(PodOpen) /\ WF_vars(PodBody) /\ WF_vars(PodFinished)
    /\ SF_vars(NsTimeout) /\ SF_vars(NsCancelled)
    /\ SF_vars(PodTimeout) /\ SF_vars(PodCancelled)

TypeOK ==
    /\ phase \in Sessions
    /\ pc \in {"open", "next", "body", "finish", "done", "error"}
    /\ count \in Int
    /\ wStop \in BOOLEAN
    /\ session \in [Sessions -> {"NEW", "OPEN", "CLOSING", "CLOSED"}]
    /\ endedBy \in [Sessions -> {"none", "timeout", "cancel", "error"}]
    /\ outage \in BOOLEAN
    /\ event \in EventTypes \cup {NoEvent}
    /\ delivered \in [Sessions -> Nat]
    /\ buffered \in [Sessions -> Nat]
    /\ seen \in [Sessions -> Nat]
    /\ stopAt \in [Sessions -> SUBSET Nat]
    /\ out \in Seq({EventLine(NS), EventLine(POD), FinishedLine(NS), FinishedLine(POD)})

\* Number of times a line occurs on standard output.
CountOf(line) == Cardinality({i \in 1..Len(out) : out[i] = line})

\* The session has been opened.
Opened(s) == session[s] # "NEW"

\* C1: in every reachable state of a run of main() the shared budget `count`
\* is never negative.
C1_BudgetNeverNegative == count >= 0

TenNamespaceEvents ==
    /\ session[NS] = "CLOSED"
    /\ endedBy[NS] # "error"
    /\ delivered[NS] = InitialBudget

C4_AnotherTenPodEvents ==
    /\ stopAt[POD] \subseteq {InitialBudget}
    /\ seen[POD] >= InitialBudget => InitialBudget \in stopAt[POD]

C6_NoEventAfterZero ==
    \A s \in Sessions :
        stopAt[s] # {} =>
            /\ stopAt[s] = {seen[s]}
            /\ ~(phase = s /\ pc = "body")
            /\ (s = NS /\ Opened(POD)) => session[NS] = "CLOSED"

C8_ErrorTerminatesRun ==
    /\ [](\A s \in Sessions :
            endedBy[s] = "error" =>
                /\ pc = "error"
                /\ phase = s
                /\ session[s] = "CLOSED"
                /\ CountOf(FinishedLine(s)) = 0
                /\ s = NS => ~Opened(POD))
    /\ [][pc # "error"]_vars

\* C8 witness: a transport error ended the namespace session after 2 events.
C8_Witness ==
    /\ endedBy[NS] = "error"
    /\ seen[NS] = 2
    /\ pc = "error"

\* C9: at most one watch session is open at any time; the pod session is opened
\* only after the namespace session has reached CLOSED.
C9_OneSessionAtATime ==
    /\ Opened(POD) => session[NS] = "CLOSED"
    /\ Cardinality({s \in Sessions : session[s] \in {"OPEN", "CLOSING"}}) <= 1

\* C9 witness: the pod session is open after the namespace session was cancelled.
C9_Witness ==
    /\ session[POD] = "OPEN"
    /\ endedBy[NS] = "cancel"

\* C10: without a transport error each completion marker is printed exactly once
\* and only after its session has ended: "Finished namespace stream." after the
\* namespace session is closed, before the pod session opens and before any pod
\* event line; "Finished pod stream." after the pod session is closed, as the
\* last output.
C10_MarkersAfterSessions ==
    (\A s \in Sessions : endedBy[s] # "error") =>
        /\ CountOf(FinishedLine(NS)) = (IF phase = POD THEN 1 ELSE 0)
        /\ CountOf(FinishedLine(POD)) = (IF pc = "done" THEN 1 ELSE 0)
        /\ phase = POD =>
              /\ session[NS] = "CLOSED"
              /\ out[seen[NS] + 1] = FinishedLine(NS)
              /\ \A i \in 1..Len(out) : out[i] = EventLine(POD) => i > seen[NS] + 1
              /\ \A i \in 1..Len(out) : out[i] = EventLine(NS) => i <= seen[NS]
        /\ Opened(POD) => phase = POD
        /\ pc = "done" =>
              /\ session[POD] = "CLOSED"
              /\ out[Len(out)] = FinishedLine(POD)

\* C10 witness: main() returned after 3 namespace and 2 pod events.
C10_Witness ==
    /\ pc = "done"
    /\ seen[NS] = 3
    /\ seen[POD] = 2
    /\ Len(out) = 7

\* C11: the consumer calls w.stop() in the processing step of an event if and
\* only if the decrement of that step leaves the budget exactly zero; a step
\* that leaves any other value, positive or negative, sends no cancellation.
C11_StopIffZero ==
    [][/\ (stopAt' # stopAt) <=> (count' # count /\ count' = 0)
       /\ (wStop' /\ ~wStop) <=> (count' # count /\ count' = 0)
       /\ \A s \in Sessions :
             (session[s] = "OPEN" /\ session'[s] = "CLOSING") =>
                 (count' = count - 1 /\ count' = 0)]_vars

\* C11 witness: cancellation was requested upon the 10th namespace event only,
\* and a further event took the budget to -1 without another request.
C11_Witness ==
    /\ stopAt[NS] = {InitialBudget}
    /\ seen[NS] = InitialBudget + 1
    /\ count = -1

\* The transitions of a watch session's state machine.
SessionTransitions ==
    { <<"NEW", "OPEN">>, <<"OPEN", "CLOSING">>, <<"OPEN", "CLOSED">>,
      <<"CLOSING", "CLOSED">> }

C13_RunTerminates ==
    <>(/\ pc = "done"
       /\ \A s \in Sessions : session[s] = "CLOSED"
       /\ \A s \in Sessions : CountOf(FinishedLine(s)) = 1)

\* C13 witness: main() returned after a namespace session that was cancelled
\* upon its 10th event and a pod session that delivered 11 events.
C13_Witness ==
    /\ pc = "done"
    /\ endedBy[NS] = "cancel"
    /\ endedBy[POD] = "timeout"
    /\ seen[POD] = 11
    /\ CountOf(FinishedLine(NS)) = 1
    /\ CountOf(FinishedLine(POD)) = 1

\* C14: with no client-side read-timeout, a silent network outage during an
\* open session blocks the consumer in that session for ever: the session
\* stays open, its completion marker is not printed, no error is raised and no
\* further step of the run happens.
C14_OutageBlocksForever ==
    /\ [](outage =>
            /\ pc = "next"
            /\ session[phase] = "OPEN"
            /\ endedBy[phase] = "none"
            /\ CountOf(FinishedLine(phase)) = 0)
    /\ [][~outage]_vars

\* C14 witness: the network went silent in the pod session after 2 pod events.
C14_Witness ==
    /\ outage
    /\ phase = POD
    /\ seen[POD] = 2
    /\ session[POD] = "OPEN"

====
